---------------------------- MODULE Spec2Model ----------------------------
(***************************************************************************)
(* BillReader (src/billreader.py): the heuristic extraction of issuer,     *)
(* billing month/year and amount due from the text of a bill, and the      *)
(* per-company ledger the parsed records are appended to.                  *)
(*                                                                         *)
(* A text is a TLA+ string; Len, SubSeq and \o act on it character by      *)
(* character.  Amounts are counted in cents (every amount the patterns     *)
(* accept has exactly two decimals), so 45.67 is 4567.                     *)
(***************************************************************************)
EXTENDS Integers, Sequences, FiniteSets, TLC

VARIABLES
    text,        \* the str argument of the function under analysis
    pc,          \* "call" before the function ran, "return" / "raise" after
    ret,         \* the value returned (None before, and after a raise)
    file,        \* the workbook persisted at the ledger path, NoFile if none
    inv,         \* per invocation of append_bill_to_spreadsheet: pc, wb, info
    log,         \* history: the records whose append has been saved, in order
    overlapped   \* history: some invocation loaded while another was in flight

vars == <<text, pc, ret, file, inv, log, overlapped>>

\* Optional values are tuples: None is the empty one, a month and year <<m, y>>,
\* an amount <<cents>>
None == <<>>
\* no workbook at the ledger path (a workbook has at least one sheet)
NoFile == <<>>

(***************************************************************************)
(* Characters                                                              *)
(***************************************************************************)

\* TLA+ strings are ASCII.  "~" stands in the model's texts for U+0131
\* (LATIN SMALL LETTER DOTLESS I), a letter that re.IGNORECASE lets the
\* pattern letter "i" match and that str.lower() returns unchanged.
DotlessI == "~"

Ch(s, i) == IF i >= 1 /\ i <= Len(s) THEN SubSeq(s, i, i) ELSE ""

Digits == {"0", "1", "2", "3", "4", "5", "6", "7", "8", "9"}

UpperAlpha == "ABCDEFGHIJKLMNOPQRSTUVWXYZ"
LowerAlpha == "abcdefghijklmnopqrstuvwxyz"

UpperSet == {Ch(UpperAlpha, i) : i \in 1..26}
LowerSet == {Ch(LowerAlpha, i) : i \in 1..26}

\* str.isspace / the regex class \s, on the characters a model text holds
Whitespace == {" ", "\t", "\n", "\r", "\f"}

\* the characters str.splitlines breaks a line at
LineBreaks == {"\n"}

\* the regex class \w
WordChars == UpperSet \cup LowerSet \cup Digits \cup {"_", DotlessI}

LowerMap == [c \in UpperSet |-> Ch(LowerAlpha, CHOOSE i \in 1..26 : Ch(UpperAlpha, i) = c)]

\* str.lower() of one character
LowerCh(c) == IF c \in UpperSet THEN LowerMap[c] ELSE c

\* the case fold re.IGNORECASE compares characters under
FoldCh(c) == IF c = DotlessI THEN "i" ELSE LowerCh(c)

\* the strings parts[lo], ..., parts[hi] put one after the other, by halves
RECURSIVE Concat(_, _, _)
Concat(parts, lo, hi) ==
    IF lo > hi THEN ""
    ELSE IF lo = hi THEN parts[lo]
    ELSE LET mid == (lo + hi) \div 2
         IN  Concat(parts, lo, mid) \o Concat(parts, mid + 1, hi)

\* the strings of a sequence put one after the other
Build(parts) == Concat(parts, 1, Len(parts))

\* str.lower()
Lower(s) == Build([k \in 1..Len(s) |-> LowerCh(Ch(s, k))])

\* a text as re.IGNORECASE sees it
Fold(s) == Build([k \in 1..Len(s) |-> FoldCh(Ch(s, k))])

DigitVal(c) == CHOOSE d \in 0..9 : Ch("0123456789", d + 1) = c

\* int() of a string of digits
RECURSIVE ParseInt(_)
ParseInt(s) ==
    IF s = "" THEN 0
    ELSE 10 * ParseInt(SubSeq(s, 1, Len(s) - 1)) + DigitVal(Ch(s, Len(s)))

SetMax(S) == CHOOSE x \in S : \A y \in S : y <= x
SetMin(S) == CHOOSE x \in S : \A y \in S : x <= y

(***************************************************************************)
(* Regular-expression steps.  Each takes the set S of positions a match    *)
(* may have reached and returns the positions it may reach next.           *)
(***************************************************************************)

AllPos(s) == 1..(Len(s) + 1)

\* a literal word w (s already folded, w in lower case)
Lit(s, S, w) ==
    {p + Len(w) : p \in {q \in S : q + Len(w) - 1 <= Len(s)
                                   /\ SubSeq(s, q, q + Len(w) - 1) = w}}

\* between lo and hi characters of class C, hi = -1 for no upper limit
Run(s, S, C, lo, hi) ==
    {q \in AllPos(s) : \E p \in S :
        /\ q >= p + lo
        /\ hi >= 0 => q <= p + hi
        /\ \A k \in p..(q - 1) : Ch(s, k) \in C}

\* one character of class C
One(s, S, C) == {p + 1 : p \in {q \in S : Ch(s, q) \in C}}

\* between lo and hi characters matched by "." (any but a newline)
AnyRun(s, S, lo, hi) ==
    {q \in AllPos(s) : \E p \in S :
        /\ q >= p + lo
        /\ q <= p + hi
        /\ \A k \in p..(q - 1) : Ch(s, k) # "\n"}

\* \b at the positions of S
WordBoundary(s, S) ==
    {p \in S : (Ch(s, p - 1) \in WordChars) # (Ch(s, p) \in WordChars)}

(***************************************************************************)
(* Strings                                                                 *)
(***************************************************************************)

\* str.splitlines(): the lines of s from position i on
RECURSIVE SplitFrom(_, _)
SplitFrom(s, i) ==
    IF i > Len(s) THEN <<>>
    ELSE LET brk == {k \in i..Len(s) : Ch(s, k) \in LineBreaks}
             j == IF brk = {} THEN Len(s) + 1 ELSE SetMin(brk)
         IN  <<SubSeq(s, i, j - 1)>> \o SplitFrom(s, j + 1)

SplitLines(s) == SplitFrom(s, 1)

\* str.strip()
Strip(s) ==
    LET keep == {k \in 1..Len(s) : Ch(s, k) \notin Whitespace}
    IN  IF keep = {} THEN "" ELSE SubSeq(s, SetMin(keep), SetMax(keep))

\* re.sub(r"\s+", " ", s): a run of whitespace leaves one space, at its start
CollapseWhitespace(s) ==
    Build([k \in 1..Len(s) |->
             IF Ch(s, k) \notin Whitespace THEN Ch(s, k)
             ELSE IF k > 1 /\ Ch(s, k - 1) \in Whitespace THEN ""
             ELSE " "])

\* s[:n]
Prefix(s, n) == IF Len(s) <= n THEN s ELSE SubSeq(s, 1, n)

(***************************************************************************)
(* detect_company                                                          *)
(***************************************************************************)

CompanyMaxLen == 50

\* known_patterns, in insertion order; each rule is a search on the text
KnownNames == <<"ConEdison", "National Grid", "Bank of America">>

KnownPatternMatches(i, s) ==
    CASE i = 1 ->
           \/ Lit(s, Run(s, Lit(s, AllPos(s), "consolidated"), Whitespace, 1, -1), "edison") # {}
           \/ Lit(s, Run(s, Lit(s, AllPos(s), "con"), Whitespace, 0, -1), "ed") # {}
      [] i = 2 ->
           Lit(s, Run(s, Lit(s, AllPos(s), "national"), Whitespace, 1, -1), "grid") # {}
      [] i = 3 ->
           \/ Lit(s, Run(s, Lit(s, Run(s, Lit(s, AllPos(s), "bank"), Whitespace, 1, -1), "of"),
                         Whitespace, 1, -1), "america") # {}
           \/ Lit(s, AllPos(s), "bofa") # {}

\* a variant of FirstKnownRule: the table walked from its last rule
FirstKnownRule_LastFirst(s) ==
    LET hit == {i \in 1..Len(KnownNames) : KnownPatternMatches(i, s)}
    IN  IF hit = {} THEN 0 ELSE SetMax(hit)

\* the rules tried in table order: the first that matches names the issuer
FirstKnownRule(s) ==
    LET hit == {i \in 1..Len(KnownNames) : KnownPatternMatches(i, s)}
    IN  IF hit = {} THEN 0 ELSE SetMin(hit)

\* lines = [ln.strip() for ln in text.splitlines() if ln.strip()]
StrippedLines(t) ==
    LET ls == SplitLines(t)
    IN  SelectSeq([k \in 1..Len(ls) |-> Strip(ls[k])], LAMBDA l : l # "")

FirstLineName(line) == Prefix(CollapseWhitespace(line), CompanyMaxLen)

detect_company(t) ==
    LET lines == StrippedLines(t)
        rule == FirstKnownRule(Fold(Lower(t)))
    IN  IF rule # 0 THEN KnownNames[rule]
        ELSE IF lines # <<>> THEN FirstLineName(lines[1])
        ELSE "Unknown"

(***************************************************************************)
(* Texts: up to n lines drawn from a set of lines, joined by "\n" as       *)
(* extract_text_from_pdf joins the pages.                                  *)
(***************************************************************************)

RECURSIVE TextsOfLines(_, _)
TextsOfLines(F, k) ==
    IF k <= 1 THEN F
    ELSE {t \o "\n" \o f : t \in TextsOfLines(F, k - 1), f \in F}

Texts(F, n) == UNION {TextsOfLines(F, k) : k \in 1..n}

MaxCompanyLines == 3

CompanyLines ==
    { "", " \t ",
      "Your Con Ed bill", "NATIONAL  Grid", "pay BofA", "Bank of\tAmerica",
      "  Acme   Water \t Co  ",
      "The  Greater  Springfield  Water  and  Power  Authority  of  the  County" }

InitCompany ==
    /\ text \in Texts(CompanyLines, MaxCompanyLines)
    /\ pc = "call"
    /\ ret = None
    /\ file = NoFile /\ inv = <<>> /\ log = <<>> /\ overlapped = FALSE

DetectCompany ==
    /\ pc = "call"
    /\ ret' = detect_company(text)
    /\ pc' = "return"
    /\ UNCHANGED <<text, file, inv, log, overlapped>>

SpecCompany == InitCompany /\ [][DetectCompany]_vars

(***************************************************************************)
(* detect_month_year                                                       *)
(***************************************************************************)

MONTH_NAME_MAP ==
    [w \in {"jan", "january"} |-> 1] @@ [w \in {"feb", "february"} |-> 2] @@
    [w \in {"mar", "march"} |-> 3] @@ [w \in {"apr", "april"} |-> 4] @@
    [w \in {"may"} |-> 5] @@ [w \in {"jun", "june"} |-> 6] @@
    [w \in {"jul", "july"} |-> 7] @@ [w \in {"aug", "august"} |-> 8] @@
    [w \in {"sep", "sept", "september"} |-> 9] @@ [w \in {"oct", "october"} |-> 10] @@
    [w \in {"nov", "november"} |-> 11] @@ [w \in {"dec", "december"} |-> 12]

\* the words of jan(?:uary)?|feb(?:ruary)?|...|dec(?:ember)?
MonthAlternatives ==
    { "jan", "january", "feb", "february", "mar", "march", "apr", "april", "may",
      "jun", "june", "jul", "july", "aug", "august", "sep", "sept", "september",
      "oct", "october", "nov", "november", "dec", "december" }

MonthName(s, S) == UNION {Lit(s, S, w) : w \in MonthAlternatives}

DateSep == {"/", "-"}

\* what a rule yields when its dictionary lookup raises
KeyError == <<"KeyError">>

\* MONTH_NAME_MAP[month_str.lower()] and int(year_str) of a match whose month
\* group is t[p..q-1] and whose year group starts at y
NamedResult(t, m) ==
    LET w == Lower(SubSeq(t, m[1], m[2] - 1))
    IN  IF w \in DOMAIN MONTH_NAME_MAP
        THEN <<MONTH_NAME_MAP[w], ParseInt(SubSeq(t, m[3], m[3] + 3))>>
        ELSE KeyError

\* int(month_str) and int(year_str)
NumericResult(t, m) ==
    <<ParseInt(SubSeq(t, m[1], m[2] - 1)), ParseInt(SubSeq(t, m[3], m[3] + 3))>>

\* the match a search finds: the one that starts leftmost
Leftmost(M) == CHOOSE m \in M : \A n \in M : m[1] <= n[1]

\* (month)\s+(\d{1,2}),\s+(\d{4}) from the positions of S: where it ends
NamedDateEnds(s, S) ==
    Run(s, Run(s, Lit(s, Run(s, Run(s, MonthName(s, S), Whitespace, 1, -1), Digits, 1, 2), ","),
               Whitespace, 1, -1), Digits, 4, 4)

\* (month)\s+(\d{1,2}),\s+(\d{4})\s+to\s+(month)\s+(\d{1,2}),\s+(\d{4}) with the
\* first month starting in S: <<month start, month end, year start>> per match
NamedRangeMatches(s, S) ==
    UNION { UNION { { <<p, q, y>> :
                y \in { z \in Run(s, Lit(s, Run(s, Run(s, {q}, Whitespace, 1, -1), Digits, 1, 2), ","),
                                  Whitespace, 1, -1) :
                        NamedDateEnds(s, Run(s, Lit(s, Run(s, Run(s, {z}, Digits, 4, 4),
                                                           Whitespace, 1, -1), "to"),
                                             Whitespace, 1, -1)) # {} } } :
            q \in MonthName(s, {p}) } : p \in S }

\* (\d{1,2})[/-](\d{1,2})[/-](\d{4}) from the positions of S: where it ends
NumericDateEnds(s, S) ==
    Run(s, One(s, Run(s, One(s, Run(s, S, Digits, 1, 2), DateSep), Digits, 1, 2), DateSep),
        Digits, 4, 4)

BillingGap == 40

\* Billing period[:\s]*(\d{1,2})[/-](\d{1,2})[/-](\d{4}).{0,40}?(\d{1,2})[/-](\d{1,2})[/-](\d{4})
NumericBillingMatches(s) ==
    UNION { UNION { { <<p, q, y>> :
                y \in { z \in One(s, Run(s, One(s, {q}, DateSep), Digits, 1, 2), DateSep) :
                        NumericDateEnds(s, AnyRun(s, Run(s, {z}, Digits, 4, 4), 0, BillingGap)) # {} } } :
            q \in Run(s, {p}, Digits, 1, 2) } :
        p \in Run(s, Lit(s, AllPos(s), "billing period"), Whitespace \cup {":"}, 0, -1) }

\* \b(month)\s+(\d{4})
MonthYearMatches(s) ==
    UNION { UNION { { <<p, q, y>> :
                y \in { z \in Run(s, {q}, Whitespace, 1, -1) : Run(s, {z}, Digits, 4, 4) # {} } } :
            q \in MonthName(s, {p}) } : p \in WordBoundary(s, AllPos(s)) }

\* \b(0?[1-9]|1[0-2])[/-](\d{4})\b
NumericMatches(s) ==
    UNION { UNION { { <<p, q, y>> :
                y \in { z \in One(s, {q}, DateSep) :
                        WordBoundary(s, Run(s, {z}, Digits, 4, 4)) # {} } } :
            q \in One(s, Run(s, {p}, {"0"}, 0, 1), Digits \ {"0"})
                  \cup One(s, Lit(s, {p}, "1"), {"0", "1", "2"}) } :
        p \in WordBoundary(s, AllPos(s)) }

\* the five rules of the cascade: what each returns, None when it has no match
billing_period_rule(t) ==
    LET s == Fold(t)
        M == NamedRangeMatches(s, Run(s, Lit(s, AllPos(s), "billing period:"), Whitespace, 1, -1))
    IN  IF M = {} THEN None ELSE NamedResult(t, Leftmost(M))

date_range_rule(t) ==
    LET s == Fold(t)
        M == NamedRangeMatches(s, AllPos(s))
    IN  IF M = {} THEN None ELSE NamedResult(t, Leftmost(M))

numeric_billing_rule(t) ==
    LET M == NumericBillingMatches(Fold(t))
    IN  IF M = {} THEN None ELSE NumericResult(t, Leftmost(M))

month_year_rule(t) ==
    LET M == MonthYearMatches(Fold(t))
    IN  IF M = {} THEN None ELSE NamedResult(t, Leftmost(M))

numeric_rule(t) ==
    LET M == NumericMatches(t)
    IN  IF M = {} THEN None ELSE NumericResult(t, Leftmost(M))

\* a variant of detect_month_year: the bare "Month Year" rule tried first
detect_month_year_BareFirst(t) ==
    LET r1 == billing_period_rule(t)
        r2 == date_range_rule(t)
        r3 == numeric_billing_rule(t)
        r4 == month_year_rule(t)
        r5 == numeric_rule(t)
    IN  IF r4 # None THEN r4
        ELSE IF r1 # None THEN r1
        ELSE IF r2 # None THEN r2
        ELSE IF r3 # None THEN r3
        ELSE r5

\* the cascade: the first rule with a match returns; KeyError when
\* MONTH_NAME_MAP has no entry for the month group
detect_month_year(t) ==
    LET r1 == billing_period_rule(t)
        r2 == date_range_rule(t)
        r3 == numeric_billing_rule(t)
        r4 == month_year_rule(t)
        r5 == numeric_rule(t)
    IN  IF r1 # None THEN r1
        ELSE IF r2 # None THEN r2
        ELSE IF r3 # None THEN r3
        ELSE IF r4 # None THEN r4
        ELSE r5

MaxPeriodLines == 3

PeriodLines ==
    { "", "Billing period: Jul 14, 2025 to Aug 05, 2025", "October 2024",
      "acct 9/2023", "Billing period: 13/01/2025 to 14/01/2025",
      "Mar 3, 2021 to Apr 2, 2021", "Apr~l 2022",
      "August 28 - September 27, 2021",
      "Billing period: August 28 - September 27, 2021" }

InitPeriod ==
    /\ text \in Texts(PeriodLines, MaxPeriodLines)
    /\ pc = "call"
    /\ ret = None
    /\ file = NoFile /\ inv = <<>> /\ log = <<>> /\ overlapped = FALSE

DetectMonthYear ==
    /\ pc = "call"
    /\ LET r == detect_month_year(text)
       IN  IF r = KeyError
           THEN pc' = "raise" /\ ret' = None
           ELSE pc' = "return" /\ ret' = r
    /\ UNCHANGED <<text, file, inv, log, overlapped>>

SpecPeriod == InitPeriod /\ [][DetectMonthYear]_vars

(***************************************************************************)
(* detect_amount                                                           *)
(***************************************************************************)

\* amounts of 100000.00 and more are not taken for bill amounts
AmountLimit == 100000

\* the characters of context looked at on each side of a decimal token
ContextWidth == 5

\* clean_amount_str of a token \d[\d,]*\.\d{2}: what re.sub leaves is digits,
\* one "." and two decimals, and float() of it is the digits read as cents
clean_amount_str(tok) ==
    LET cleaned == Build([k \in 1..Len(tok) |->
                             IF Ch(tok, k) \in Digits \cup {".", "-"} THEN Ch(tok, k) ELSE ""])
        digits == Build([k \in 1..Len(cleaned) |->
                            IF Ch(cleaned, k) \in Digits THEN Ch(cleaned, k) ELSE ""])
    IN  IF cleaned = "" THEN None ELSE <<ParseInt(digits)>>

\* \d[\d,]*\.\d{2} at position p of line l: where it ends, 0 for no match
DecimalEnd(l, p) ==
    IF Ch(l, p) \notin Digits THEN 0
    ELSE LET r == SetMax(Run(l, {p + 1}, Digits \cup {","}, 0, -1))
         IN  IF Ch(l, r) = "." /\ Ch(l, r + 1) \in Digits /\ Ch(l, r + 2) \in Digits
             THEN r + 3 ELSE 0

\* \$\s*(\d[\d,]*\.\d{2}) at position p: <<start of the group, end>>, <<>> for none
CurrencyAt(l, p) ==
    IF Ch(l, p) # "$" THEN <<>>
    ELSE LET g == SetMax(Run(l, {p + 1}, Whitespace, 0, -1))
         IN  IF DecimalEnd(l, g) # 0 THEN <<g, DecimalEnd(l, g)>> ELSE <<>>

\* finditer: the matches from position i on, left to right, none overlapping
RECURSIVE DecimalSpans(_, _)
DecimalSpans(l, i) ==
    LET P == {p \in i..Len(l) : DecimalEnd(l, p) # 0}
    IN  IF P = {} THEN {}
        ELSE LET p == SetMin(P)
             IN  {<<p, DecimalEnd(l, p)>>} \cup DecimalSpans(l, DecimalEnd(l, p))

RECURSIVE CurrencySpans(_, _)
CurrencySpans(l, i) ==
    LET P == {p \in i..Len(l) : CurrencyAt(l, p) # <<>>}
    IN  IF P = {} THEN {}
        ELSE LET p == SetMin(P)
             IN  {CurrencyAt(l, p)} \cup CurrencySpans(l, CurrencyAt(l, p)[2])

\* a variant of NearDash: no context is taken for a phone number
NearDash_Never(context) == FALSE

\* re.search(r'\d-\d', context)
NearDash(context) ==
    \E k \in 1..Len(context) :
        Ch(context, k) \in Digits /\ Ch(context, k + 1) = "-" /\ Ch(context, k + 2) \in Digits

\* line_text[max(0, start-5):min(len(line_text), end+5)]
Context(l, span) ==
    LET lo == IF span[1] - ContextWidth < 1 THEN 1 ELSE span[1] - ContextWidth
        hi == IF span[2] - 1 + ContextWidth > Len(l) THEN Len(l) ELSE span[2] - 1 + ContextWidth
    IN  SubSeq(l, lo, hi)

\* the candidates one line contributes, in cents
CurrencyCandidates(l) ==
    LET amts == {clean_amount_str(SubSeq(l, m[1], m[2] - 1)) : m \in CurrencySpans(l, 1)}
    IN  {a[1] : a \in {x \in amts : x # None /\ x[1] < AmountLimit * 100}}

DecimalCandidates(l) ==
    LET kept == {m \in DecimalSpans(l, 1) : ~NearDash(Context(l, m))}
        amts == {clean_amount_str(SubSeq(l, m[1], m[2] - 1)) : m \in kept}
    IN  {a[1] : a \in {x \in amts : x # None /\ 1 <= x[1] /\ x[1] < AmountLimit * 100}}

LineCandidates(l) == CurrencyCandidates(l) \cup DecimalCandidates(l)

\* the phrase w1\s+w2\s+...: the positions it may end at
RECURSIVE PhraseEnds(_, _, _)
PhraseEnds(s, S, words) ==
    IF Len(words) = 1 THEN Lit(s, S, words[1])
    ELSE PhraseEnds(s, Run(s, Lit(s, S, words[1]), Whitespace, 1, -1), Tail(words))

\* the alternatives of keyword_pattern
KeywordPhrases ==
    { <<"total", "amount", "due">>, <<"amount", "due">>, <<"total", "due">>,
      <<"current", "charges">>, <<"amount", "due", "now">> }

\* keyword_pattern.search(line)
keyword_pattern(l) ==
    LET s == Fold(l)
    IN  \E ph \in KeywordPhrases : PhraseEnds(s, AllPos(s), ph) # {}

\* a variant of Window: two lines on each side
Window_TwoLines(lines, idx) ==
    {j \in 1..Len(lines) : j >= idx - 2 /\ j <= idx + 2}

\* range(max(0, idx - 1), min(len(lines), idx + 2)), lines counted from 1
Window(lines, idx) ==
    {j \in 1..Len(lines) : j >= idx - 1 /\ j <= idx + 1}

WindowCandidates(lines, idx) == UNION {LineCandidates(lines[j]) : j \in Window(lines, idx)}

\* a variant of FirstPass: only the first keyword line is looked at
RECURSIVE FirstPass_FirstKeywordOnly(_, _)
FirstPass_FirstKeywordOnly(lines, idx) ==
    IF idx > Len(lines) THEN None
    ELSE IF keyword_pattern(lines[idx])
         THEN IF WindowCandidates(lines, idx) # {}
              THEN <<SetMax(WindowCandidates(lines, idx))>> ELSE None
         ELSE FirstPass_FirstKeywordOnly(lines, idx + 1)

\* the first pass from line idx on: the maximum of the window of the first
\* keyword line whose window holds a candidate, None when there is no such line
RECURSIVE FirstPass(_, _)
FirstPass(lines, idx) ==
    IF idx > Len(lines) THEN None
    ELSE LET amount_candidates == IF keyword_pattern(lines[idx])
                                  THEN WindowCandidates(lines, idx) ELSE {}
         IN  IF amount_candidates # {} THEN <<SetMax(amount_candidates)>>
             ELSE FirstPass(lines, idx + 1)

\* the fallback: the maximum over every line
AllAmounts(lines) == UNION {LineCandidates(lines[j]) : j \in 1..Len(lines)}

detect_amount(t) ==
    LET lines == SplitLines(t)
        near == FirstPass(lines, 1)
        all_amounts == AllAmounts(lines)
    IN  IF near # None THEN near
        ELSE IF all_amounts # {} THEN <<SetMax(all_amounts)>>
        ELSE None

MaxAmountLines == 4

AmountLines ==
    { "", "Total Due", "Total Amount Due: $45.67", "$999.00", "New Balance $5.00",
      "Call 555-123-4567", "ref 4-12.50 7.25 $250,000.00" }

InitAmount ==
    /\ text \in Texts(AmountLines, MaxAmountLines)
    /\ pc = "call"
    /\ ret = None
    /\ file = NoFile /\ inv = <<>> /\ log = <<>> /\ overlapped = FALSE

DetectAmount ==
    /\ pc = "call"
    /\ ret' = detect_amount(text)
    /\ pc' = "return"
    /\ UNCHANGED <<text, file, inv, log, overlapped>>

SpecAmount == InitAmount /\ [][DetectAmount]_vars

(***************************************************************************)
(* parse_bill                                                              *)
(***************************************************************************)

\* parse_bill ends in the KeyError detect_month_year raises
parse_bill_raises(t) == detect_month_year(t) = KeyError

\* the BillInfo parse_bill builds from the text extract_text_from_pdf returns
parse_bill(t) ==
    LET company == detect_company(t)
        month_year == detect_month_year(t)
        amount == detect_amount(t)
    IN  [company |-> company,
         month |-> IF month_year = None THEN 1 ELSE month_year[1],
         year |-> IF month_year = None THEN 1970 ELSE month_year[2],
         amount |-> IF amount = None THEN 0 ELSE amount[1]]

MaxParseLines == 3

ParseLines ==
    { "", "Consolidated Edison", "Some Obscure Co",
      "Billing period: Jul 14, 2025 to Aug 05, 2025", "October 2025", "Apr~l 2022",
      "Total Amount Due $123.45", "Balance Due: $58.00", "Customer service: 800-555-1234" }

Init ==
    /\ text \in Texts(ParseLines, MaxParseLines)
    /\ pc = "call"
    /\ ret = None
    /\ file = NoFile /\ inv = <<>> /\ log = <<>> /\ overlapped = FALSE

ParseBill ==
    /\ pc = "call"
    /\ IF parse_bill_raises(text)
       THEN pc' = "raise" /\ ret' = None
       ELSE pc' = "return" /\ ret' = parse_bill(text)
    /\ UNCHANGED <<text, file, inv, log, overlapped>>

Next == ParseBill

Spec == Init /\ [][Next]_vars

(***************************************************************************)
(* normalize_sheet_name                                                    *)
(***************************************************************************)

\* the characters an Excel sheet name cannot hold: : \ / ? * [ ]
Unsafe == {":", "\\", "/", "?", "*", "[", "]"}

\* Excel's limit on the length of a sheet name
SheetNameLimit == 31

\* re.sub(unsafe, "_", company)
ReplaceUnsafe(company) ==
    Build([k \in 1..Len(company) |-> IF Ch(company, k) \in Unsafe THEN "_" ELSE Ch(company, k)])

\* a variant of normalize_sheet_name: the name cut before "_bill" is added
normalize_sheet_name_CutFirst(company) ==
    LET stripped == Strip(ReplaceUnsafe(company))
        safe_company == IF stripped = "" THEN "Unknown" ELSE stripped
    IN  Prefix(safe_company, SheetNameLimit) \o "_bill"

normalize_sheet_name(company) ==
    LET stripped == Strip(ReplaceUnsafe(company))
        safe_company == IF stripped = "" THEN "Unknown" ELSE stripped
    IN  Prefix(safe_company \o "_bill", SheetNameLimit)

\* company strings: up to n pieces put one after the other
RECURSIVE Pieced(_, _)
Pieced(P, n) ==
    IF n = 0 THEN {""} ELSE {a \o b : a \in Pieced(P, n - 1), b \in P \cup {""}}

MaxNamePieces == 3

NamePieces ==
    { " ", "/", "NY", "Con Edison", "[x]?", "*:\\", "Consolidated Edison Co" }

InitSheet ==
    /\ text \in Pieced(NamePieces, MaxNamePieces)
    /\ pc = "call"
    /\ ret = None
    /\ file = NoFile /\ inv = <<>> /\ log = <<>> /\ overlapped = FALSE

NormalizeSheetName ==
    /\ pc = "call"
    /\ ret' = normalize_sheet_name(text)
    /\ pc' = "return"
    /\ UNCHANGED <<text, file, inv, log, overlapped>>

SpecSheet == InitSheet /\ [][NormalizeSheetName]_vars

(***************************************************************************)
(* The ledger: a workbook is the sequence of its sheets, a sheet a title   *)
(* and the sequence of its rows.                                           *)
(***************************************************************************)

MONTH_NUMBER_TO_NAME ==
    <<"January", "February", "March", "April", "May", "June", "July", "August",
      "September", "October", "November", "December">>

\* MONTH_NUMBER_TO_NAME.get(month, "Unknown")
month_number_to_name(month) ==
    IF month \in DOMAIN MONTH_NUMBER_TO_NAME THEN MONTH_NUMBER_TO_NAME[month] ELSE "Unknown"

\* Workbook(): one empty sheet, the active one
NewWorkbook == << [title |-> "Sheet", rows |-> <<>>] >>

\* a variant of get_or_create_workbook: the file at the path is never loaded
get_or_create_workbook_AlwaysNew(f) == NewWorkbook

\* load_workbook(path) if path.exists(), else Workbook()
get_or_create_workbook(f) == IF f = NoFile THEN NewWorkbook ELSE f

sheetnames(wb) == {wb[k].title : k \in 1..Len(wb)}

\* ws.max_row and ws.max_column: both 1 on a sheet with no cell
max_row(ws) == IF ws.rows = <<>> THEN 1 ELSE Len(ws.rows)
max_column(ws) == IF ws.rows = <<>> THEN 1 ELSE Len(ws.rows[1])

HeaderRow == <<"month", "year", "amount">>

SheetIndex(wb, name) == CHOOSE k \in 1..Len(wb) : wb[k].title = name

\* a variant of get_or_create_company_sheet: the default sheet is never reused
get_or_create_company_sheet_AlwaysCreate(wb, company) ==
    LET sheet_name == normalize_sheet_name(company)
    IN  IF sheet_name \in sheetnames(wb) THEN wb
        ELSE Append(wb, [title |-> sheet_name, rows |-> <<HeaderRow>>])

\* the workbook after get_or_create_company_sheet: the sheet found, or the
\* default sheet renamed, or a sheet created, the new sheet with its header
get_or_create_company_sheet(wb, company) ==
    LET sheet_name == normalize_sheet_name(company)
    IN  IF sheet_name \in sheetnames(wb) THEN wb
        ELSE IF Len(wb) = 1 /\ max_row(wb[1]) = 1 /\ max_column(wb[1]) = 1
             THEN << [title |-> sheet_name, rows |-> Append(wb[1].rows, HeaderRow)] >>
             ELSE Append(wb, [title |-> sheet_name, rows |-> <<HeaderRow>>])

\* lines 595-597: the row of info appended to its company's sheet
append_row(wb, info) ==
    LET wb2 == get_or_create_company_sheet(wb, info.company)
        k == SheetIndex(wb2, normalize_sheet_name(info.company))
        row == <<month_number_to_name(info.month), info.year, info.amount>>
    IN  [wb2 EXCEPT ![k].rows = Append(@, row)]

\* the invocations of append_bill_to_spreadsheet against one ledger path
MaxAppends == 3

\* the records appended: two of them fall into one sheet, one has the month 13
\* that detect_month_year can return
Infos ==
    { [company |-> "Acme", month |-> 7, year |-> 2025, amount |-> 4567],
      [company |-> "Acme", month |-> 13, year |-> 2025, amount |-> 0],
      [company |-> "Con Edison/NY", month |-> 7, year |-> 2025, amount |-> 12345],
      [company |-> "Con Edison:NY", month |-> 1, year |-> 1970, amount |-> 12345] }

InFlight(k) == inv[k].pc \in {"append", "save"}

InitLedger ==
    /\ text = "" /\ pc = "idle" /\ ret = None
    /\ file = NoFile
    /\ inv = <<>>
    /\ log = <<>>
    /\ overlapped = FALSE

\* an invocation starts: wb = get_or_create_workbook(path)
Load ==
    /\ Len(inv) < MaxAppends
    /\ \E info \in Infos :
         inv' = Append(inv, [pc |-> "append", wb |-> get_or_create_workbook(file), info |-> info])
    /\ overlapped' = (overlapped \/ \E j \in 1..Len(inv) : InFlight(j))
    /\ UNCHANGED <<text, pc, ret, file, log>>

\* ws = get_or_create_company_sheet(...); ws.append([month_name, year, amount])
AppendRow ==
    /\ \E k \in 1..Len(inv) :
         /\ inv[k].pc = "append"
         /\ inv' = [inv EXCEPT ![k].wb = append_row(@, inv[k].info), ![k].pc = "save"]
    /\ UNCHANGED <<text, pc, ret, file, log, overlapped>>

\* wb.save(path)
Save ==
    /\ \E k \in 1..Len(inv) :
         /\ inv[k].pc = "save"
         /\ file' = inv[k].wb
         /\ log' = Append(log, inv[k].info)
         /\ inv' = [inv EXCEPT ![k].pc = "done"]
    /\ UNCHANGED <<text, pc, ret, overlapped>>

NextLedger == Load \/ AppendRow \/ Save

SpecLedger == InitLedger /\ [][NextLedger]_vars

(***************************************************************************)
(* Properties                                                              *)
(***************************************************************************)

\* C1: for every text parse_bill returns a record with all four fields set:
\* month 1 and year 1970 when detect_month_year finds nothing, amount 0.0 when
\* detect_amount finds nothing, company "Unknown" when no rule matches and no
\* line is non-blank, the resolvers' values otherwise, and never an empty company.
C1_RecordAlwaysPopulated ==
    pc # "call" =>
      /\ pc = "return"
      /\ ret.company # ""
      /\ ret.company = detect_company(text)
      /\ (FirstKnownRule(Fold(Lower(text))) = 0 /\ StrippedLines(text) = <<>>)
            => ret.company = "Unknown"
      /\ <<ret.month, ret.year>> =
            (IF detect_month_year(text) = None THEN <<1, 1970>> ELSE detect_month_year(text))
      /\ ret.amount = (IF detect_amount(text) = None THEN 0 ELSE detect_amount(text)[1])

\* C2: whenever detect_month_year returns a month and year, the month is in 1..12.
C2_MonthInRange ==
    (pc = "return" /\ ret # None) => ret[1] \in 1..12

FirstLineClaim(line, stripped) ==
    Prefix(CollapseWhitespace(IF stripped THEN Strip(line) ELSE line), 50)

CompanyClaim(stripped) ==
    pc = "return" =>
      LET s == Fold(Lower(text))
          hit == {i \in 1..3 : KnownPatternMatches(i, s)}
          ls == SplitLines(text)
          nb == {k \in 1..Len(ls) : Strip(ls[k]) # ""}
      IN  /\ \A i \in hit : (\A j \in hit : i <= j) =>
                ret = <<"ConEdison", "National Grid", "Bank of America">>[i]
          /\ (hit = {} /\ nb # {}) => ret = FirstLineClaim(ls[SetMin(nb)], stripped)
          /\ (hit = {} /\ nb = {}) => ret = "Unknown"

\* C3 (as amended): detect_company returns the name of the first rule, in the
\* order ConEdison, National Grid, Bank of America, whose pattern matches
\* anywhere in the text; with no match, the first non-blank line stripped of
\* its surrounding whitespace, each run of whitespace collapsed to one space,
\* cut to 50 characters; with no non-blank line, "Unknown".
C3_TableOrderThenStrippedLine == CompanyClaim(TRUE)

\* C3 (as stated): the same with the first non-blank line taken as it stands,
\* its leading and trailing whitespace collapsed like any other run.
C3_TableOrderThenRawLine == CompanyClaim(FALSE)

\* C3 witness: a rule later in the table matches on the first line, ConEdison's
\* only on the second, and ConEdison is returned.
C3_LaterRuleMatchesEarlier ==
    /\ pc = "return"
    /\ LET ls == SplitLines(text)
       IN  /\ Len(ls) >= 2
           /\ KnownPatternMatches(2, Fold(Lower(ls[1])))
           /\ ~KnownPatternMatches(1, Fold(Lower(ls[1])))
           /\ KnownPatternMatches(1, Fold(Lower(ls[2])))
    /\ ret = "ConEdison"

\* C4: when the text holds a labeled two-date range ("Billing period: Month
\* Day, Year to Month Day, Year") and a bare "Month Year" elsewhere, before or
\* after it, detect_month_year returns the start month and year of the range.
C4_LabeledRangeWins ==
    pc # "call" =>
      ((billing_period_rule(text) # None /\ MonthYearMatches(Fold(text)) # {})
          => (pc = "return" /\ ret = billing_period_rule(text)))

\* C4 witness: "October 2024" before and after the range of July 14, 2025.
C4_BareBeforeAndAfter ==
    /\ pc = "return"
    /\ LET ls == SplitLines(text)
       IN  /\ Len(ls) = 3
           /\ month_year_rule(ls[1]) = <<10, 2024>>
           /\ billing_period_rule(ls[2]) = <<7, 2025>>
           /\ month_year_rule(ls[3]) = <<10, 2024>>
    /\ ret = <<7, 2025>>

\* (month)\s+\d{1,2}\s*-\s*(month)\s+\d{1,2},\s+(\d{4}), the range C11 speaks
\* of: <<start month start, start month end, year start>> per match
DashRangeMatches(s) ==
    UNION { UNION { { <<p, q, y>> :
                y \in { z \in Run(s, Lit(s, Run(s, Run(s, MonthName(s,
                                  Run(s, Lit(s, Run(s, Run(s, Run(s, {q}, Whitespace, 1, -1),
                                                           Digits, 1, 2), Whitespace, 0, -1), "-"),
                                      Whitespace, 0, -1)),
                                  Whitespace, 1, -1), Digits, 1, 2), ","), Whitespace, 1, -1) :
                        Run(s, {z}, Digits, 4, 4) # {} } } :
            q \in MonthName(s, {p}) } : p \in AllPos(s) }

\* the line is one dash range, with the label "Billing period: " or without
IsDashRangeLine(l) ==
    LET s == Fold(l)
    IN  \E m \in DashRangeMatches(s) :
            /\ m[3] + 4 = Len(s) + 1
            /\ SubSeq(s, 1, m[1] - 1) \in {"", "billing period: "}

\* the text has a dash range and nothing else but blank lines
OnlyDashRanges(t) ==
    LET ls == SplitLines(t)
    IN  /\ \E k \in 1..Len(ls) : IsDashRangeLine(ls[k])
        /\ \A k \in 1..Len(ls) : Strip(ls[k]) = "" \/ IsDashRangeLine(ls[k])

\* C11: for a text whose only date expression is a month-name range with a
\* dash and one trailing year, labeled or not ("August 28 - September 27,
\* 2021"), detect_month_year returns the start month and the trailing year.
C11_DashRangeGivesStartMonth ==
    (pc # "call" /\ OnlyDashRanges(text)) =>
        /\ pc = "return"
        /\ ret = NamedResult(text, Leftmost(DashRangeMatches(Fold(text))))

KeywordLines(lines) == {i \in 1..Len(lines) : keyword_pattern(lines[i])}

\* the candidates of each line
CandidatesByLine(lines) == [j \in 1..Len(lines) |-> LineCandidates(lines[j])]

\* the candidates of the lines i-1, i, i+1 that exist, cand the candidates by line
NearCandidates(cand, i) ==
    UNION {cand[j] : j \in {k \in 1..Len(cand) : i - 1 <= k /\ k <= i + 1}}

EveryCandidate(cand) == UNION {cand[j] : j \in 1..Len(cand)}

MaxOrNone(S) == IF S = {} THEN None ELSE <<SetMax(S)>>

\* C5: when the window [i-1, i+1] of the first keyword line i holds a
\* candidate, detect_amount returns the maximum of that window, whatever
\* amounts stand on the lines outside it.
C5_FirstKeywordWindowMax ==
    pc = "return" =>
      LET lines == SplitLines(text)
          kw == KeywordLines(lines)
          cand == CandidatesByLine(lines)
      IN  (kw # {} /\ NearCandidates(cand, SetMin(kw)) # {})
             => ret = <<SetMax(NearCandidates(cand, SetMin(kw)))>>

\* C5 witness: "Total Amount Due: $45.67" with "$999.00" two lines later gives 45.67.
C5_AmountOutsideWindowIgnored ==
    /\ pc = "return"
    /\ text = "Total Amount Due: $45.67\n\n$999.00"
    /\ ret = <<4567>>

\* C6: normalize_sheet_name returns a non-empty name of at most 31 characters
\* with none of : \ / ? * [ ], got by replacing each unsafe character by "_",
\* stripping, taking "Unknown" for nothing, adding "_bill" and cutting to 31;
\* "Con Edison/NY" gives "Con Edison_NY_bill".
C6_SheetNameSafe ==
    pc = "return" =>
      /\ ret # ""
      /\ Len(ret) <= 31
      /\ \A k \in 1..Len(ret) : Ch(ret, k) \notin {":", "\\", "/", "?", "*", "[", "]"}
      /\ LET kept == Strip(Build([k \in 1..Len(text) |->
                                    IF Ch(text, k) \in {":", "\\", "/", "?", "*", "[", "]"}
                                    THEN "_" ELSE Ch(text, k)]))
         IN  ret = Prefix((IF kept = "" THEN "Unknown" ELSE kept) \o "_bill", 31)
      /\ text = "Con Edison/NY" => ret = "Con Edison_NY_bill"

\* C6 witness: a company with an unsafe character, too long for a sheet name.
C6_UnsafeAndCut ==
    /\ pc = "return"
    /\ \E k \in 1..Len(text) : Ch(text, k) = "/"
    /\ Len(Strip(text)) > 31
    /\ Len(ret) = 31

Settled == \A k \in 1..Len(inv) : inv[k].pc = "done"

RowOf(info) == <<month_number_to_name(info.month), info.year, info.amount>>

\* the header and the rows of the logged records of one sheet, in log order
ExpectedRows(name) ==
    LET mine == SelectSeq(log, LAMBDA r : normalize_sheet_name(r.company) = name)
    IN  <<HeaderRow>> \o [k \in 1..Len(mine) |-> RowOf(mine[k])]

DataRows(wb) ==
    Cardinality(UNION {{<<k, i>> : i \in 2..Len(wb[k].rows)} : k \in 1..Len(wb)})

\* C8: once every invocation has saved, the ledger lacks a row exactly when
\* some invocation loaded the workbook while another had loaded and not yet
\* saved; invocations that run one after the other lose no row.
C8_RowsLostOnlyWhenInterleaved ==
    Settled =>
      /\ ~overlapped => DataRows(file) = Len(log)
      /\ overlapped => DataRows(file) < Len(log)

\* C8 witness: two invocations both loaded before either saved, and the sheet
\* of one of them is not in the ledger.
C8_LostSheet ==
    /\ Settled /\ overlapped
    /\ Len(log) = 2
    /\ DataRows(file) = 1
    /\ \E k \in 1..2 : normalize_sheet_name(log[k].company) \notin sheetnames(file)

\* C9 (as amended): keyword lines are examined in order and the first whose
\* window [i-1, i+1] holds a candidate gives the result, the maximum of that
\* window; when no keyword line has a candidate in its window, or there is no
\* keyword line, the result is the maximum over every line, absent if none.
C9_FallbackWhenNoKeywordWindowHasCandidate ==
    pc = "return" =>
      LET lines == SplitLines(text)
          cand == CandidatesByLine(lines)
          good == {i \in KeywordLines(lines) : NearCandidates(cand, i) # {}}
      IN  IF good = {} THEN ret = MaxOrNone(EveryCandidate(cand))
          ELSE ret = <<SetMax(NearCandidates(cand, SetMin(good)))>>

\* C9 (as stated): when the window of the first keyword line holds no
\* candidate, or there is no keyword line, the result is the maximum over
\* every line, absent if none: later keyword lines are not examined.
C9_FallbackWhenFirstKeywordWindowEmpty ==
    pc = "return" =>
      LET lines == SplitLines(text)
          kw == KeywordLines(lines)
          cand == CandidatesByLine(lines)
      IN  (kw = {} \/ NearCandidates(cand, SetMin(kw)) = {})
             => ret = MaxOrNone(EveryCandidate(cand))

\* C9 witness: a keyword line, no keyword line with a candidate in its window,
\* an amount elsewhere, which is returned.
C9_FallbackTaken ==
    /\ pc = "return"
    /\ LET lines == SplitLines(text)
           cand == CandidatesByLine(lines)
       IN  /\ KeywordLines(lines) # {}
           /\ \A i \in KeywordLines(lines) : NearCandidates(cand, i) = {}
           /\ EveryCandidate(cand) # {}
           /\ ret = <<SetMax(EveryCandidate(cand))>>

\* the nine phrases the specification lists as keywords
ClaimedKeywordPhrases ==
    { <<"total", "amount", "due">>, <<"amount", "due">>, <<"total", "due">>,
      <<"current", "charges">>, <<"amount", "due", "now">>, <<"new", "balance">>,
      <<"statement", "balance">>, <<"payment", "due">>, <<"balance", "due">> }

\* C10: a line with any of the nine phrases is a keyword line: when the first
\* such line has a candidate in its window, the result is the maximum of that
\* window and not the maximum over the document.
C10_NinePhrasesAnchor ==
    pc = "return" =>
      LET lines == SplitLines(text)
          kw == {i \in 1..Len(lines) : \E ph \in ClaimedKeywordPhrases :
                    PhraseEnds(Fold(lines[i]), AllPos(lines[i]), ph) # {}}
          cand == CandidatesByLine(lines)
      IN  (kw # {} /\ NearCandidates(cand, SetMin(kw)) # {})
             => ret = <<SetMax(NearCandidates(cand, SetMin(kw)))>>

\* the amount a token stands for, in cents
TokenValue(l, m) == clean_amount_str(SubSeq(l, m[1], m[2] - 1))[1]

\* a digit, a hyphen and a digit within the token m of line l and the up to
\* five characters before and after it
DashInContext(l, m) ==
    \E k \in 1..Len(l) :
        /\ k >= m[1] - ContextWidth
        /\ k + 2 <= m[2] - 1 + ContextWidth
        /\ k + 2 <= Len(l)
        /\ Ch(l, k) \in Digits /\ Ch(l, k + 1) = "-" /\ Ch(l, k + 2) \in Digits

\* the amounts of the tokens of line l that are not bare decimals with a
\* digit-hyphen-digit in their context
UnsuppressedValues(l) ==
    {TokenValue(l, m) : m \in CurrencySpans(l, 1)}
        \cup {TokenValue(l, m) : m \in {n \in DecimalSpans(l, 1) : ~DashInContext(l, n)}}

\* \d{3}-\d{3}-\d{4} at position p of line l
PhoneAt(l, p) ==
    Run(l, Lit(l, Run(l, Lit(l, Run(l, {p}, Digits, 3, 3), "-"), Digits, 3, 3), "-"),
        Digits, 4, 4) # {}

\* every digit of line l belongs to a hyphenated phone number
OnlyPhoneDigits(l) ==
    \A k \in 1..Len(l) :
        Ch(l, k) \in Digits => \E p \in 1..k : k < p + 12 /\ PhoneAt(l, p)

\* C12: a bare decimal token whose context, the token and up to 5 characters
\* before and after it on its line, holds a digit-hyphen-digit gives no
\* candidate in either phase, so detect_amount never returns an amount that
\* only such tokens carry; and a text whose only digits are those of
\* hyphenated phone numbers ("Call 555-123-4567") yields no amount.
C12_DashContextSuppresses ==
    pc = "return" =>
      LET lines == SplitLines(text)
      IN  /\ ret # None => \E k \in 1..Len(lines) : ret[1] \in UnsuppressedValues(lines[k])
          /\ (/\ \E k \in 1..Len(lines) : \E p \in 1..Len(lines[k]) : PhoneAt(lines[k], p)
              /\ \A k \in 1..Len(lines) : OnlyPhoneDigits(lines[k]))
                => ret = None

\* C12 witness: next to a keyword line stands a bare decimal with a
\* digit-hyphen-digit in its context, larger than the amount returned.
C12_LargerTokenNearDashSkipped ==
    /\ pc = "return"
    /\ ret # None
    /\ LET lines == SplitLines(text)
       IN  \E i \in KeywordLines(lines) : \E j \in Window(lines, i) :
             \E m \in DecimalSpans(lines[j], 1) :
                /\ DashInContext(lines[j], m)
                /\ TokenValue(lines[j], m) > ret[1]
                /\ TokenValue(lines[j], m) < AmountLimit * 100

=============================================================================
